---- MODULE Spec2Model ----
(***************************************************************************)
(* A model of caudio: the AudioQueueOutput buffer pool (src/src/queue.rs),  *)
(* its completion callback, the teardown of the callback box of            *)
(* AudioQueueOutput, AudioQueueInput and AudioUnit, the lifecycle of an     *)
(* AudioUnit (src/src/unit/mod.rs), and the layout of an owned              *)
(* AudioBufferList (src/src/unit/buffer.rs).                                *)
(*                                                                         *)
(* Two threads are modelled: the application thread, whose position is pc, *)
(* and the host's thread, which delivers completions (output_proc) and      *)
(* invokes the input and render trampolines.  Every host call that returns *)
(* an OSStatus is an input ok \in BOOLEAN of the action that makes it.      *)
(***************************************************************************)
EXTENDS Integers, Sequences, FiniteSets

\* Largest buffer_count passed to AudioQueueOutput::new.
MaxBuffers == 2

\* buffer_size (in samples) passed to AudioQueueOutput::new.
BufferSize == 1

\* mem::size_of::<S>() for the f32 sample of the tests.
SampleSize == 4

VARIABLES
    kind,          \* which object this behaviour is about
    pc,            \* position of the application thread
    buffer_count,  \* the buffer_count argument of AudioQueueOutput::new
    buffers,       \* AudioQueueOutput.buffers: Vec<AudioQueueBuffer>
    next_buffer,   \* the mpsc channel of free indices (tx -> next_buffer)
    hostOwned,     \* per buffer allocated by new: enqueues the host accepted and has not completed
    freed,         \* buffers passed to AudioQueueFreeBuffer
    freeCalls,     \* the AudioQueueFreeBuffer calls made, in order: the buffer of each
    handle,        \* the live BorrowedAudioQueueBuffer, if any (at most one: &mut)
    other,         \* the buffer behind the live handle of another pool, if any
    running,       \* the host queue / unit is running
    queue_ref,     \* the host object: "none", "live", "disposed"
    wrapper,       \* the callback box behind wrapper_ptr: "none", "live", "freed"
    wrapperFrees,  \* how many times the box was reclaimed
    initialized,   \* AudioUnit.initialized
    started,       \* AudioUnit.started
    hostCallback,  \* the host holds the token of a registered callback
    dropCalls,     \* the host calls Drop for AudioUnit has made, in order
    host,          \* the host's side of the unit: [initialized, wellFormed]
    list,          \* the AudioBufferList built by AudioBufferList::new, if any
    value,         \* what the last accessor of the list returned (-1: nothing)
    others,        \* the other AudioBufferLists of one buffer the application built
    acquired,      \* indices request_buffer returned since an index last came back
    last           \* the last step taken: [op, idx, ok]

vars == <<kind, pc, buffer_count, buffers, next_buffer, hostOwned, freed,
          freeCalls, handle, other,
          running, queue_ref, wrapper, wrapperFrees, initialized, started,
          hostCallback, dropCalls, host, list, value, others, acquired,
          last>>

poolVars == <<buffer_count, buffers, next_buffer, hostOwned, freed, freeCalls, handle,
              other, acquired>>
unitVars == <<initialized, started, hostCallback, dropCalls, host>>
listVars == <<list, value, others>>

\* The host's side of a unit no call was made on.
NoCalls == [initialized |-> FALSE, wellFormed |-> TRUE]

\* No AudioBufferList has been built.
NoList == [state |-> "none"]

\* The other lists the application builds beside the list.
Others == {"o1", "o2"}

Kinds == {"output", "input", "unit"}

\* A step: the operation, the index it is about (-1: none), what it returned
\* (TRUE: Ok) and the host calls it made, in order.
StepCalls(op, idx, ok, calls) == [op |-> op, idx |-> idx, ok |-> ok, calls |-> calls]

Step(op, idx, ok) == StepCalls(op, idx, ok, <<>>)

Range(s) == {s[i] : i \in 1..Len(s)}

Count(x, s) == Cardinality({i \in 1..Len(s) : s[i] = x})

----------------------------------------------------------------------------
(* AudioQueueBuffer *)

\* AudioQueueBuffer::new: the host allocates len * size_of::<S>() bytes and the
\* index is stored in mUserData.  The byte sizes are u32 in the source; the
\* sizes of this model stay far below 2^32, so `as u32` changes none of them.
\* queue is the host queue the buffer is allocated for: "this" for the queue
\* of the pool the behaviour is about, "other" for the queue of another pool.
AudioQueueBuffer_new(queue, idx, len) ==
    [queue_ref |-> queue,
     mUserData |-> idx,
     mAudioDataBytesCapacity |-> len * SampleSize,
     mAudioDataByteSize |-> 0,
     free_on_drop |-> TRUE]

\* AudioQueueBuffer::borrowed: a view of the host's buffer buffer_ref.
AudioQueueBuffer_borrowed(buffer_ref) ==
    [queue_ref |-> buffer_ref.queue_ref,
     mUserData |-> buffer_ref.mUserData,
     mAudioDataBytesCapacity |-> buffer_ref.mAudioDataBytesCapacity,
     mAudioDataByteSize |-> buffer_ref.mAudioDataByteSize,
     free_on_drop |-> FALSE]

\* A drop that frees nothing.
AudioQueueBuffer_drop_never(buf, calls) == calls

\* The host buffer behind an AudioQueueBuffer: its queue and its index there.
buffer_ref(buf) == <<buf.queue_ref, buf.mUserData>>

\* Drop for AudioQueueBuffer: the AudioQueueFreeBuffer calls made so far, and
\* the one this drop makes.
AudioQueueBuffer_drop(buf, calls) ==
    IF ~buf.free_on_drop THEN calls
    ELSE Append(calls, buffer_ref(buf))

\* Vec::clear: every element of the vector is dropped, in order.
RECURSIVE clear(_, _)
clear(vec, calls) ==
    IF vec = <<>> THEN calls
    ELSE clear(Tail(vec), AudioQueueBuffer_drop(Head(vec), calls))

Clamp(x, lo, hi) == IF x < lo THEN lo ELSE IF x > hi THEN hi ELSE x

\* A resize that takes the requested length as it is.
resize_unclamped(buf, len) ==
    [buf EXCEPT !.mAudioDataByteSize = len * SampleSize]

\* AudioQueueBuffer::resize
resize(buf, len) ==
    LET max_bytes == buf.mAudioDataBytesCapacity
        max       == max_bytes \div SampleSize
        clamped   == Clamp(len, 0, max)
        byte_size == clamped * SampleSize
    IN  [buf EXCEPT !.mAudioDataByteSize = byte_size]

\* Deref for AudioQueueBuffer: the length of the slice handed out.
deref_len(buf) == buf.mAudioDataByteSize \div SampleSize

----------------------------------------------------------------------------
(* The completion callback *)

\* The closure output_proc_fn: tx.send(idx).ok()
output_proc_fn(chan, idx) == Append(chan, idx)

----------------------------------------------------------------------------
(* BorrowedAudioQueueBuffer *)

BorrowedDrop_always(h, chan) == Append(chan, h.index)

BorrowedDrop_never(h, chan) == chan

\* Drop for BorrowedAudioQueueBuffer
BorrowedDrop(h, chan) ==
    IF ~h.was_enqueued THEN Append(chan, h.index) ELSE chan

----------------------------------------------------------------------------
(* AudioQueueOutput *)

Handle(index) == [index |-> index, was_enqueued |-> FALSE]

\* Positions of the application thread while it holds a handle: just acquired,
\* after a resize, after writing the samples.
HandlePcs == {"held", "resized", "filled"}

\* AudioQueueOutput::new, the loop: tx.send(idx) for idx in 0..buffer_count
InitialReady(k) == [i \in 1..k |-> i - 1]

\* The value in the mUserData slot of the buffer AudioQueueOutput::new
\* allocated as its b-th: AudioQueueBuffer::new stores idx there and nothing
\* writes the slot again, wherever the buffer's wrapper is moved to.
mUserData(b) == b

\* The buffers the host holds.
HostHeld == {b \in DOMAIN hostOwned : hostOwned[b] > 0}

\* The values output_proc can read from the mUserData slot of buffer b when
\* the host completes it.  Of a buffer already freed the read is of released
\* memory and may yield any value: an index of the pool or a value that is
\* none (buffer_count stands for those).
Sent(b) == IF b \in freed THEN 0..buffer_count ELSE {mUserData(b)}

\* The host hands back every buffer it holds when the queue is stopped
\* (AudioQueueStop with inImmediate = 1): output_proc runs once per buffer of
\* held, in the order the host chooses, and sends what it reads from the
\* buffer.  The ready-queues that can result.
RECURSIVE Flush(_, _)
Flush(held, chan) ==
    IF held = {} THEN {chan}
    ELSE UNION {Flush(held \ {b[1]}, output_proc_fn(chan, b[2])) :
                b \in {c \in held \X (0..buffer_count) : c[2] \in Sent(c[1])}}

\* What AudioQueueStop does to the pool, by the status it returns.
StopEffect(ok) ==
    /\ running' = (IF ok THEN FALSE ELSE running)
    /\ next_buffer' \in (IF ok THEN Flush(HostHeld, next_buffer)
                         ELSE {next_buffer})
    /\ hostOwned' = (IF ok THEN [b \in DOMAIN hostOwned |-> 0] ELSE hostOwned)
    /\ acquired' = (IF next_buffer' # next_buffer THEN <<>> ELSE acquired)

\* AudioQueueOutput::new.  okQueue is the status of AudioQueueNewOutput and k
\* the number of AudioQueueAllocateBuffer calls that succeed: with
\* k < buffer_count the (k+1)-th fails and `?` drops the instance.
AudioQueueOutput_new(okQueue, k) ==
    /\ kind = "output" /\ pc = "new"
    /\ wrapper' = "live"
    /\ IF okQueue
       THEN /\ queue_ref' = "live"
            /\ buffers' = [i \in 1..k |-> AudioQueueBuffer_new("this", i - 1,
                                                            BufferSize)]
            /\ next_buffer' = InitialReady(k)
            /\ hostOwned' = [b \in 0..(k - 1) |-> 0]
            /\ pc' = (IF k = buffer_count THEN "idle" ELSE "drop_stop")
       ELSE /\ pc' = "failed"
            /\ UNCHANGED <<queue_ref, buffers, next_buffer, hostOwned>>
    /\ last' = Step("new", k, okQueue /\ k = buffer_count)
    /\ UNCHANGED <<kind, other, listVars, buffer_count, freed, freeCalls, handle,
                   running, wrapperFrees, acquired, unitVars>>

\* AudioQueueOutput::start
AudioQueueOutput_start(ok) ==
    /\ kind = "output" /\ pc = "idle"
    /\ running' = (IF ok THEN TRUE ELSE running)
    /\ last' = Step("start", -1, ok)
    /\ UNCHANGED <<kind, listVars, pc, poolVars, queue_ref, wrapper,
                   wrapperFrees, unitVars>>

\* AudioQueueOutput::stop
AudioQueueOutput_stop(ok) ==
    /\ kind = "output" /\ pc = "idle"
    /\ StopEffect(ok)
    /\ last' = Step("stop", -1, ok)
    /\ UNCHANGED <<kind, other, listVars, pc, buffer_count, buffers, freed,
                   freeCalls, handle, queue_ref, wrapper, wrapperFrees,
                   unitVars>>

\* AudioQueueOutput::request_buffer, entered: the thread is in recv().
request_buffer_call ==
    /\ kind = "output" /\ pc = "idle"
    /\ pc' = "recv"
    /\ last' = Step("request_buffer_call", -1, TRUE)
    /\ UNCHANGED <<kind, listVars, poolVars, running, queue_ref, wrapper,
                   wrapperFrees, unitVars>>

\* The instance is being dropped inside AudioQueueOutput::new, by the `?` of
\* a failed AudioQueueBuffer::new: the constructor's local tx is still alive.
InsideNew ==
    /\ kind = "output" /\ queue_ref # "none"
    /\ pc \in {"drop_stop", "drop_clear", "drop_dispose", "drop_reclaim"}
    /\ Cardinality(DOMAIN hostOwned) < buffer_count

\* The Sender handles of the ready-queue that are alive: the `tx` field of
\* the pool (a field lives until Drop for AudioQueueOutput has returned), the
\* clone the callback closure owns inside the boxed wrapper, and the local
\* tx of new() while the constructor has not returned.
Senders ==
    (IF kind = "output" /\ pc \notin {"new", "failed", "dropped"} THEN 1 ELSE 0)
    + (IF wrapper = "live" THEN 1 ELSE 0)
    + (IF InsideNew THEN 1 ELSE 0)

\* AudioQueueOutput::request_buffer, returning: recv() yields the oldest
\* index; on an empty channel it blocks while a Sender is alive and reports
\* disconnection when none is, which expect() turns into a panic (the
\* unwinding drops the pool).
request_buffer ==
    /\ kind = "output" /\ pc = "recv"
    /\ next_buffer # <<>> \/ Senders = 0
    /\ IF next_buffer # <<>>
       THEN /\ handle' = <<Handle(Head(next_buffer))>>
            /\ next_buffer' = Tail(next_buffer)
            /\ acquired' = Append(acquired, Head(next_buffer))
            /\ pc' = "held"
            /\ last' = Step("request_buffer", Head(next_buffer), TRUE)
       ELSE /\ pc' = "drop_stop"
            /\ last' = Step("request_buffer_panic", -1, FALSE)
            /\ UNCHANGED <<handle, next_buffer, acquired>>
    /\ UNCHANGED <<kind, other, listVars, buffer_count, buffers, hostOwned, freed,
                   freeCalls, running, queue_ref, wrapper, wrapperFrees,
                   unitVars>>

\* The handle's index is a position of the array.  Deref and DerefMut for
\* BorrowedAudioQueueBuffer and AudioQueueOutput::enqueue index the array with
\* it (self.buffers[index]).
InArray == handle[1].index < buffer_count

\* An index that is no position of the array (a completion read it from
\* released memory) makes the indexing panic.  The unwinding drops the handle,
\* which sends its index unless enqueue() had set the flag, and then the pool.
handle_index_panic(enq) ==
    /\ kind = "output" /\ pc \in HandlePcs
    /\ ~InArray
    /\ next_buffer' = BorrowedDrop([handle[1] EXCEPT !.was_enqueued = enq],
                                   next_buffer)
    /\ acquired' = (IF next_buffer' # next_buffer THEN <<>> ELSE acquired)
    /\ handle' = <<>>
    /\ pc' = "drop_stop"
    /\ last' = Step("index_panic", handle[1].index, FALSE)
    /\ UNCHANGED <<kind, other, listVars, buffer_count, buffers, hostOwned, freed,
                   freeCalls, running, queue_ref, wrapper, wrapperFrees,
                   unitVars>>

\* AudioQueueBuffer::resize through DerefMut of the handle.
handle_resize(len) ==
    /\ kind = "output" /\ pc \in HandlePcs
    /\ InArray
    /\ buffers' = [buffers EXCEPT ![handle[1].index + 1] = resize(@, len)]
    /\ pc' = "resized"
    /\ last' = Step("resize", handle[1].index, TRUE)
    /\ UNCHANGED <<kind, other, listVars, buffer_count, next_buffer, hostOwned,
                   freed, freeCalls, handle, acquired, running, queue_ref,
                   wrapper, wrapperFrees, unitVars>>

\* Writing the samples of the handle's slice (buf.iter_mut()).
handle_fill ==
    /\ kind = "output" /\ pc \in HandlePcs
    /\ InArray
    /\ pc' = "filled"
    /\ last' = Step("fill", handle[1].index, TRUE)
    /\ UNCHANGED <<kind, listVars, poolVars, running, queue_ref, wrapper,
                   wrapperFrees, unitVars>>

\* The buffer behind `other`, a handle of another pool, when that pool was
\* built (with MaxBuffers buffers of the same buffer_size; the handle is of
\* its last index).
OtherBuffer == AudioQueueBuffer_new("other", MaxBuffers - 1, BufferSize)

\* mem::swap(&mut *handle, &mut *other) through DerefMut for
\* BorrowedAudioQueueBuffer: the buffer at the handle's position and the
\* buffer behind the other pool's handle change places.
handle_swap_other ==
    /\ kind = "output" /\ pc \in HandlePcs
    /\ InArray
    /\ other # <<>>
    /\ buffers' = [buffers EXCEPT ![handle[1].index + 1] = other[1]]
    /\ other' = <<buffers[handle[1].index + 1]>>
    /\ last' = Step("swap_other", handle[1].index, TRUE)
    /\ UNCHANGED <<kind, listVars, pc, buffer_count, next_buffer, hostOwned,
                   freed, freeCalls, handle, acquired, running, queue_ref,
                   wrapper, wrapperFrees, unitVars>>

\* The array of the other pool: its own buffers, and at the position of its
\* handle the buffer the swaps have left there.
OtherBuffers ==
    [i \in 1..MaxBuffers |->
        IF i = MaxBuffers THEN other[1]
        ELSE AudioQueueBuffer_new("other", i - 1, BufferSize)]

\* The other pool goes out of scope (its handle first), at any moment of
\* this pool's life, before it is built and after it is gone: the two pools
\* are independent values.  Drop for AudioQueueOutput clears its array, and
\* every buffer in it is passed to AudioQueueFreeBuffer with the queue_ref
\* the buffer carries, a buffer of this pool too.
OtherPool_drop ==
    /\ kind = "output"
    /\ other # <<>>
    /\ freeCalls' = clear(OtherBuffers, freeCalls)
    /\ freed' = freed \cup {other[n].mUserData : n \in
                               {m \in DOMAIN other :
                                   /\ other[m].queue_ref = "this"
                                   /\ other[m].free_on_drop}}
    /\ other' = <<>>
    /\ last' = Step("other_pool_drop", -1, TRUE)
    /\ UNCHANGED <<kind, listVars, pc, buffer_count, buffers, next_buffer,
                   hostOwned, handle, acquired, running, queue_ref,
                   wrapper, wrapperFrees, unitVars>>

\* BorrowedAudioQueueBuffer::enqueue: the flag is set, AudioQueueOutput::enqueue
\* calls AudioQueueEnqueueBuffer, and the consumed handle is dropped.  The
\* host takes the buffer when ok, unless the buffer is of another queue (it
\* returns kAudioQueueErr_InvalidBuffer) or is one it holds already (it returns
\* kAudioQueueErr_BufferEnqueuedTwice).
handle_enqueue(ok) ==
    /\ kind = "output" /\ pc \in HandlePcs
    /\ InArray
    /\ LET h == [handle[1] EXCEPT !.was_enqueued = TRUE]
           status == /\ ok
                     /\ buffers[h.index + 1].queue_ref = "this"
                     /\ hostOwned[buffers[h.index + 1].mUserData] = 0
       IN  /\ hostOwned' = (IF status
                            THEN [hostOwned EXCEPT
                                     ![buffers[h.index + 1].mUserData] = @ + 1]
                            ELSE hostOwned)
           /\ next_buffer' = BorrowedDrop(h, next_buffer)
           /\ last' = Step("enqueue", h.index, status)
    /\ acquired' = (IF next_buffer' # next_buffer THEN <<>> ELSE acquired)
    /\ handle' = <<>>
    /\ pc' = "idle"
    /\ UNCHANGED <<kind, other, listVars, buffer_count, buffers, freed, freeCalls,
                   running, queue_ref, wrapper, wrapperFrees, unitVars>>

\* The handle goes out of scope without enqueue().
handle_drop ==
    /\ kind = "output" /\ pc \in HandlePcs
    /\ next_buffer' = BorrowedDrop(handle[1], next_buffer)
    /\ acquired' = (IF next_buffer' # next_buffer THEN <<>> ELSE acquired)
    /\ last' = Step("drop", handle[1].index, TRUE)
    /\ handle' = <<>>
    /\ pc' = "idle"
    /\ UNCHANGED <<kind, other, listVars, buffer_count, buffers, hostOwned, freed,
                   freeCalls, running, queue_ref, wrapper, wrapperFrees,
                   unitVars>>

\* A completion that waits while the channel holds an index (a channel bounded
\* to one element).
output_proc_bounded(b) ==
    /\ kind = "output" /\ queue_ref = "live" /\ running
    /\ b \in DOMAIN hostOwned /\ hostOwned[b] > 0
    /\ Len(next_buffer) < 1
    /\ \E idx \in Sent(b) :
          /\ next_buffer' = output_proc_fn(next_buffer, idx)
          /\ last' = Step("output_proc", idx, TRUE)
    /\ hostOwned' = [hostOwned EXCEPT ![b] = @ - 1]
    /\ acquired' = (IF next_buffer' # next_buffer THEN <<>> ELSE acquired)
    /\ UNCHANGED <<kind, other, listVars, pc, buffer_count, buffers, freed,
                   freeCalls, handle, running, queue_ref, wrapper,
                   wrapperFrees, unitVars>>

\* The host is done with buffer b and calls output_proc on its own thread.
\* The index is what output_proc reads from the buffer's mUserData.
output_proc(b) ==
    /\ kind = "output" /\ queue_ref = "live" /\ running
    /\ b \in DOMAIN hostOwned /\ hostOwned[b] > 0
    /\ \E idx \in Sent(b) :
          /\ next_buffer' = output_proc_fn(next_buffer, idx)
          /\ last' = Step("output_proc", idx, TRUE)
    /\ hostOwned' = [hostOwned EXCEPT ![b] = @ - 1]
    /\ acquired' = (IF next_buffer' # next_buffer THEN <<>> ELSE acquired)
    /\ UNCHANGED <<kind, other, listVars, pc, buffer_count, buffers, freed,
                   freeCalls, handle, running, queue_ref, wrapper,
                   wrapperFrees, unitVars>>

OutputDropAfter_reclaimFirst(p) ==
    CASE p = "drop_stop"    -> "drop_clear"
      [] p = "drop_clear"   -> "drop_reclaim"
      [] p = "drop_reclaim" -> "drop_dispose"
      [] p = "drop_dispose" -> "dropped"

\* Drop for AudioQueueOutput: the order of its statements.
OutputDropAfter(p) ==
    CASE p = "drop_stop"    -> "drop_clear"
      [] p = "drop_clear"   -> "drop_dispose"
      [] p = "drop_dispose" -> "drop_reclaim"
      [] p = "drop_reclaim" -> "dropped"

\* Drop for AudioQueueOutput: let _ = self.stop()
OutputDrop_stop(ok) ==
    /\ kind = "output" /\ pc \in {"idle", "drop_stop"}
    /\ StopEffect(ok)
    /\ pc' = OutputDropAfter("drop_stop")
    /\ last' = Step("drop_stop", -1, ok)
    /\ UNCHANGED <<kind, other, listVars, buffer_count, buffers, freed, freeCalls,
                   handle, queue_ref, wrapper, wrapperFrees, unitVars>>

\* Drop for AudioQueueOutput: self.buffers.clear() drops every owned
\* AudioQueueBuffer, and each is passed to AudioQueueFreeBuffer.
OutputDrop_clear ==
    /\ kind = "output" /\ pc = "drop_clear"
    /\ freed' = freed \cup {buffers[n].mUserData : n \in
                                {m \in DOMAIN buffers :
                                    /\ buffers[m].queue_ref = "this"
                                    /\ buffers[m].free_on_drop}}
    /\ freeCalls' = clear(buffers, freeCalls)
    /\ buffers' = <<>>
    /\ pc' = OutputDropAfter("drop_clear")
    /\ last' = Step("drop_clear", -1, TRUE)
    /\ UNCHANGED <<kind, other, listVars, buffer_count, next_buffer, hostOwned,
                   handle, acquired, running, queue_ref, wrapper,
                   wrapperFrees, unitVars>>

\* Drop for AudioQueueOutput: AudioQueueDispose(queue_ref, 1).  The host makes
\* no call on a disposed queue.
OutputDrop_dispose ==
    /\ kind = "output" /\ pc = "drop_dispose"
    /\ queue_ref' = "disposed"
    /\ running' = FALSE
    /\ hostOwned' = [b \in DOMAIN hostOwned |-> 0]
    /\ pc' = OutputDropAfter("drop_dispose")
    /\ last' = Step("drop_dispose", -1, TRUE)
    /\ UNCHANGED <<kind, other, listVars, buffer_count, buffers, next_buffer, freed,
                   freeCalls, handle, acquired, wrapper, wrapperFrees,
                   unitVars>>

\* Drop for AudioQueueOutput: Box::from_raw(self.wrapper_ptr)
OutputDrop_reclaim ==
    /\ kind = "output" /\ pc = "drop_reclaim"
    /\ wrapper' = "freed"
    /\ wrapperFrees' = wrapperFrees + 1
    /\ pc' = OutputDropAfter("drop_reclaim")
    /\ last' = Step("drop_reclaim", -1, TRUE)
    /\ UNCHANGED <<kind, listVars, poolVars, running, queue_ref, unitVars>>

----------------------------------------------------------------------------
(* AudioQueueInput *)

\* AudioQueueInput::new; ok is the status of AudioQueueNewInput.
AudioQueueInput_new(ok) ==
    /\ kind = "input" /\ pc = "new"
    /\ wrapper' = "live"
    /\ queue_ref' = (IF ok THEN "live" ELSE queue_ref)
    /\ pc' = (IF ok THEN "idle" ELSE "failed")
    /\ last' = Step("new", -1, ok)
    /\ UNCHANGED <<kind, listVars, poolVars, running, wrapperFrees, unitVars>>

\* AudioQueueInput::start
AudioQueueInput_start(ok) ==
    /\ kind = "input" /\ pc = "idle"
    /\ running' = (IF ok THEN TRUE ELSE running)
    /\ last' = Step("start", -1, ok)
    /\ UNCHANGED <<kind, listVars, pc, poolVars, queue_ref, wrapper,
                   wrapperFrees, unitVars>>

\* AudioQueueInput::stop
AudioQueueInput_stop(ok) ==
    /\ kind = "input" /\ pc = "idle"
    /\ running' = (IF ok THEN FALSE ELSE running)
    /\ last' = Step("stop", -1, ok)
    /\ UNCHANGED <<kind, listVars, pc, poolVars, queue_ref, wrapper,
                   wrapperFrees, unitVars>>

\* A buffer of recorded audio the host passes to input_proc: the host's own,
\* full, with nothing in mUserData.
HostInputBuffer ==
    [queue_ref |-> "this",
     mUserData |-> -1,
     mAudioDataBytesCapacity |-> BufferSize * SampleSize,
     mAudioDataByteSize |-> BufferSize * SampleSize]

\* The host calls input_proc (queue.rs) on its own thread: the token is
\* dereferenced, a borrowed AudioQueueBuffer is built, handed to the callback
\* and dropped (free_on_drop is false: nothing is freed).
input_proc ==
    /\ kind = "input" /\ queue_ref = "live" /\ running
    /\ freeCalls' = AudioQueueBuffer_drop(AudioQueueBuffer_borrowed(HostInputBuffer),
                                          freeCalls)
    /\ last' = Step("input_proc", -1, TRUE)
    /\ UNCHANGED <<kind, other, listVars, pc, buffer_count, buffers, next_buffer,
                   hostOwned, freed, handle, acquired, running, queue_ref,
                   wrapper, wrapperFrees, unitVars>>

\* Drop for AudioQueueInput: the order of its statements.
InputDropAfter(p) ==
    CASE p = "drop_stop"    -> "drop_dispose"
      [] p = "drop_dispose" -> "drop_reclaim"
      [] p = "drop_reclaim" -> "dropped"

\* Drop for AudioQueueInput: let _ = self.stop()
InputDrop_stop(ok) ==
    /\ kind = "input" /\ pc = "idle"
    /\ running' = (IF ok THEN FALSE ELSE running)
    /\ pc' = InputDropAfter("drop_stop")
    /\ last' = Step("drop_stop", -1, ok)
    /\ UNCHANGED <<kind, listVars, poolVars, queue_ref, wrapper, wrapperFrees,
                   unitVars>>

\* Drop for AudioQueueInput: AudioQueueDispose(queue_ref, 1)
InputDrop_dispose ==
    /\ kind = "input" /\ pc = "drop_dispose"
    /\ queue_ref' = "disposed"
    /\ running' = FALSE
    /\ pc' = InputDropAfter("drop_dispose")
    /\ last' = Step("drop_dispose", -1, TRUE)
    /\ UNCHANGED <<kind, listVars, poolVars, wrapper, wrapperFrees, unitVars>>

\* Drop for AudioQueueInput: Box::from_raw(self.wrapper_ptr)
InputDrop_reclaim ==
    /\ kind = "input" /\ pc = "drop_reclaim"
    /\ wrapper' = "freed"
    /\ wrapperFrees' = wrapperFrees + 1
    /\ pc' = InputDropAfter("drop_reclaim")
    /\ last' = Step("drop_reclaim", -1, TRUE)
    /\ UNCHANGED <<kind, listVars, poolVars, running, queue_ref, unitVars>>

----------------------------------------------------------------------------
(* AudioUnit.  The methods are written as functions of the record            *)
(* u = [initialized, started, running, ret, calls]: the two flags, whether the *)
(* host is running the unit, what the method returns (TRUE: Ok) and the host *)
(* calls made so far.                                                       *)

Unit == [initialized |-> initialized, started |-> started, running |-> running,
         host |-> host, disposed |-> queue_ref = "disposed",
         ret |-> TRUE, calls |-> <<>>]

\* A call the host's own state allows: a start of an initialized object, an
\* uninitialize of one that is not running, and nothing of a disposed one.
Allowed(u, call) ==
    /\ ~u.disposed
    /\ call = "AudioOutputUnitStart" => u.host.initialized
    /\ call = "AudioUnitUninitialize" => ~u.running

\* The host's state after a call: it changes exactly when the call succeeds.
HostInitialized(u, call, ok) ==
    IF ok /\ call = "AudioUnitInitialize" THEN TRUE
    ELSE IF ok /\ call = "AudioUnitUninitialize" THEN FALSE
    ELSE u.host.initialized

HostRunning(u, call, ok) ==
    IF ok /\ call = "AudioOutputUnitStart" THEN TRUE
    ELSE IF ok /\ call = "AudioOutputUnitStop" THEN FALSE
    ELSE u.running

\* The wrapper makes a host call, which returns status ok.
Called(u, call, ok) ==
    [u EXCEPT !.calls = Append(@, call),
              !.running = HostRunning(u, call, ok),
              !.host = [initialized |-> HostInitialized(u, call, ok),
                        wellFormed  |-> @.wellFormed /\ Allowed(u, call)]]

\* An initialize that marks the unit initialized whatever the host returned.
unit_initialize_sticky(u, ok) ==
    IF u.initialized THEN [u EXCEPT !.ret = TRUE]
    ELSE [Called(u, "AudioUnitInitialize", ok) EXCEPT !.initialized = TRUE, !.ret = ok]

\* AudioUnit::initialize
unit_initialize(u, ok) ==
    IF u.initialized THEN [u EXCEPT !.ret = TRUE]
    ELSE LET c == Called(u, "AudioUnitInitialize", ok)
         IN  IF ok THEN [c EXCEPT !.initialized = TRUE, !.ret = TRUE]
             ELSE [c EXCEPT !.ret = FALSE]

\* A stop that takes the unit back to Created.
unit_stop_toCreated(u, ok) ==
    IF ~u.started THEN [u EXCEPT !.ret = TRUE]
    ELSE LET c == Called(u, "AudioOutputUnitStop", ok)
         IN  IF ok THEN [c EXCEPT !.started = FALSE, !.initialized = FALSE,
                                  !.ret = TRUE]
             ELSE [c EXCEPT !.ret = FALSE]

\* A stop that asks the host once more when the host refused.
unit_stop_retry(u, ok) ==
    IF ~u.started THEN [u EXCEPT !.ret = TRUE]
    ELSE LET c == Called(u, "AudioOutputUnitStop", ok)
         IN  IF ok THEN [c EXCEPT !.started = FALSE, !.ret = TRUE]
             ELSE [Called(c, "AudioOutputUnitStop", ok) EXCEPT !.ret = FALSE]

\* AudioUnit::stop
unit_stop(u, ok) ==
    IF ~u.started THEN [u EXCEPT !.ret = TRUE]
    ELSE LET c == Called(u, "AudioOutputUnitStop", ok)
         IN  IF ok THEN [c EXCEPT !.started = FALSE, !.ret = TRUE]
             ELSE [c EXCEPT !.ret = FALSE]

\* An uninitialize that does not stop a started unit first.
unit_uninitialize_noStop(u, okStop, okUninit) ==
    IF ~u.initialized THEN [u EXCEPT !.ret = TRUE]
    ELSE LET c == Called(u, "AudioUnitUninitialize", okUninit)
         IN  IF okUninit THEN [c EXCEPT !.initialized = FALSE, !.ret = TRUE]
             ELSE [c EXCEPT !.ret = FALSE]

\* AudioUnit::uninitialize
unit_uninitialize(u, okStop, okUninit) ==
    IF ~u.initialized THEN [u EXCEPT !.ret = TRUE]
    ELSE LET s == IF u.started THEN unit_stop(u, okStop) ELSE [u EXCEPT !.ret = TRUE]
         IN  IF ~s.ret THEN s
             ELSE LET c == Called(s, "AudioUnitUninitialize", okUninit)
                  IN  IF okUninit THEN [c EXCEPT !.initialized = FALSE, !.ret = TRUE]
                      ELSE [c EXCEPT !.ret = FALSE]

\* A start that asks the host also when the unit is started.
unit_start_again(u, okInit, okStart) ==
    LET i == IF ~u.initialized THEN unit_initialize(u, okInit)
             ELSE [u EXCEPT !.ret = TRUE]
    IN  IF ~i.ret THEN i
        ELSE LET c == Called(i, "AudioOutputUnitStart", okStart)
             IN  IF okStart THEN [c EXCEPT !.started = TRUE, !.ret = TRUE]
                 ELSE [c EXCEPT !.ret = FALSE]

\* A start that goes on to the host start whatever the initialize returned.
unit_start_ignoresInit(u, okInit, okStart) ==
    IF u.started THEN [u EXCEPT !.ret = TRUE]
    ELSE LET i == IF ~u.initialized THEN unit_initialize(u, okInit)
                  ELSE [u EXCEPT !.ret = TRUE]
             c == Called(i, "AudioOutputUnitStart", okStart)
         IN  IF okStart THEN [c EXCEPT !.started = TRUE, !.ret = i.ret]
             ELSE [c EXCEPT !.ret = FALSE]

\* AudioUnit::start
unit_start(u, okInit, okStart) ==
    IF u.started THEN [u EXCEPT !.ret = TRUE]
    ELSE LET i == IF ~u.initialized THEN unit_initialize(u, okInit)
                  ELSE [u EXCEPT !.ret = TRUE]
         IN  IF ~i.ret THEN i
             ELSE LET c == Called(i, "AudioOutputUnitStart", okStart)
                  IN  IF okStart THEN [c EXCEPT !.started = TRUE, !.ret = TRUE]
                      ELSE [c EXCEPT !.ret = FALSE]

\* AudioUnit::set_property: the one AudioUnitSetProperty call, whose status
\* is what the method returns.
unit_set_property(u, ok) ==
    [Called(u, "AudioUnitSetProperty", ok) EXCEPT !.ret = ok]

\* The unit takes the state a method left.
UnitBecomes(u, op) ==
    /\ initialized' = u.initialized
    /\ started' = u.started
    /\ running' = u.running
    /\ host' = u.host
    /\ last' = StepCalls(op, -1, u.ret, u.calls)

\* AudioUnit::new.  found: AudioComponentFindNext gave a component (when it
\* gave none, new returns NoComponentFound and AudioComponentInstanceNew is
\* not called); ok is the status of AudioComponentInstanceNew.
AudioUnit_new(found, ok) ==
    /\ kind = "unit" /\ pc = "new"
    /\ queue_ref' = (IF found /\ ok THEN "live" ELSE queue_ref)
    /\ pc' = (IF found /\ ok THEN "idle" ELSE "failed")
    /\ last' = StepCalls("new", -1, found /\ ok,
                         IF found THEN <<"AudioComponentInstanceNew">>
                         ELSE <<>>)
    /\ UNCHANGED <<kind, listVars, poolVars, running, wrapper, wrapperFrees,
                   unitVars>>

AudioUnit_initialize(ok) ==
    /\ kind = "unit" /\ pc = "idle"
    /\ UnitBecomes(unit_initialize(Unit, ok), "initialize")
    /\ UNCHANGED <<kind, listVars, pc, poolVars, queue_ref, wrapper,
                   wrapperFrees, hostCallback, dropCalls>>

AudioUnit_uninitialize(okStop, okUninit) ==
    /\ kind = "unit" /\ pc = "idle"
    /\ UnitBecomes(unit_uninitialize(Unit, okStop, okUninit), "uninitialize")
    /\ UNCHANGED <<kind, listVars, pc, poolVars, queue_ref, wrapper,
                   wrapperFrees, hostCallback, dropCalls>>

AudioUnit_start(okInit, okStart) ==
    /\ kind = "unit" /\ pc = "idle"
    /\ UnitBecomes(unit_start(Unit, okInit, okStart), "start")
    /\ UNCHANGED <<kind, listVars, pc, poolVars, queue_ref, wrapper,
                   wrapperFrees, hostCallback, dropCalls>>

AudioUnit_stop(ok) ==
    /\ kind = "unit" /\ pc = "idle"
    /\ UnitBecomes(unit_stop(Unit, ok), "stop")
    /\ UNCHANGED <<kind, listVars, pc, poolVars, queue_ref, wrapper,
                   wrapperFrees, hostCallback, dropCalls>>

\* AudioUnit::set_stream_format: the one AudioUnitSetProperty call of
\* set_property (status ok); nothing of the wrapper changes.
AudioUnit_set_stream_format(ok) ==
    /\ kind = "unit" /\ pc = "idle"
    /\ LET p == unit_set_property(Unit, ok)
       IN  /\ last' = StepCalls("set_stream_format", -1, p.ret, p.calls)
           /\ host' = p.host
    /\ UNCHANGED <<kind, listVars, pc, poolVars, running, queue_ref, wrapper,
                   wrapperFrees, initialized, started, hostCallback,
                   dropCalls>>

\* AudioUnit::set_render_callback on a unit with no callback yet: the box is
\* stored in self.callback, then the host is given the token (status ok).
AudioUnit_set_render_callback(ok) ==
    /\ kind = "unit" /\ pc = "idle"
    /\ wrapper = "none"
    /\ wrapper' = "live"
    /\ hostCallback' = (IF ok THEN TRUE ELSE hostCallback)
    /\ LET p == unit_set_property(Unit, ok)
       IN  /\ last' = StepCalls("set_render_callback", -1, p.ret, p.calls)
           /\ host' = p.host
    /\ UNCHANGED <<kind, listVars, pc, poolVars, running, queue_ref,
                   wrapperFrees, initialized, started, dropCalls>>

\* A second registration that frees the recorded box and gives the host a new one.
AudioUnit_set_render_callback_replace ==
    /\ kind = "unit" /\ pc = "idle"
    /\ wrapper # "none"
    /\ wrapper' = "live"
    /\ wrapperFrees' = wrapperFrees + 1
    /\ hostCallback' = TRUE
    /\ last' = StepCalls("set_render_callback", -1, TRUE, <<"AudioUnitSetProperty">>)
    /\ UNCHANGED <<kind, listVars, pc, poolVars, running, queue_ref,
                   initialized, started, dropCalls, host>>

\* AudioUnit::set_render_callback on a unit that has a callback: the assertion
\* fails before anything else is done, and the panic unwinds into the drop of
\* the unit.
AudioUnit_set_render_callback_again ==
    /\ kind = "unit" /\ pc = "idle"
    /\ wrapper # "none"
    /\ pc' = "drop_stop"
    /\ last' = Step("set_render_callback_panic", -1, FALSE)
    /\ UNCHANGED <<kind, listVars, poolVars, running, queue_ref, wrapper,
                   wrapperFrees, unitVars>>

\* The host calls input_proc (unit/mod.rs) with the token it was given.
render_proc ==
    /\ kind = "unit" /\ queue_ref = "live" /\ hostCallback
    /\ last' = Step("render_proc", -1, TRUE)
    /\ UNCHANGED <<kind, listVars, pc, poolVars, running, queue_ref, wrapper,
                   wrapperFrees, unitVars>>

\* A Drop for AudioUnit that does not dispose the host object.
UnitDropAfter_noDispose(p) ==
    CASE p = "drop_stop"    -> "drop_uninit"
      [] p = "drop_uninit"  -> "drop_reclaim"
      [] p = "drop_dispose" -> "drop_reclaim"
      [] p = "drop_reclaim" -> "dropped"

\* Drop for AudioUnit: the order of its statements; the fields (the callback
\* box among them) are dropped after the body.
UnitDropAfter(p) ==
    CASE p = "drop_stop"    -> "drop_uninit"
      [] p = "drop_uninit"  -> "drop_dispose"
      [] p = "drop_dispose" -> "drop_reclaim"
      [] p = "drop_reclaim" -> "dropped"

\* Drop for AudioUnit: self.stop().ok()
UnitDrop_stop(ok) ==
    /\ kind = "unit" /\ pc \in {"idle", "drop_stop"}
    /\ UnitBecomes(unit_stop(Unit, ok), "drop_stop")
    /\ dropCalls' = dropCalls \o unit_stop(Unit, ok).calls
    /\ pc' = UnitDropAfter("drop_stop")
    /\ UNCHANGED <<kind, listVars, poolVars, queue_ref, wrapper, wrapperFrees,
                   hostCallback>>

\* Drop for AudioUnit: self.uninitialize().ok()
UnitDrop_uninitialize(okStop, okUninit) ==
    /\ kind = "unit" /\ pc = "drop_uninit"
    /\ UnitBecomes(unit_uninitialize(Unit, okStop, okUninit), "drop_uninit")
    /\ dropCalls' = dropCalls \o unit_uninitialize(Unit, okStop, okUninit).calls
    /\ pc' = UnitDropAfter("drop_uninit")
    /\ UNCHANGED <<kind, listVars, poolVars, queue_ref, wrapper, wrapperFrees,
                   hostCallback>>

\* Drop for AudioUnit: AudioComponentInstanceDispose(self.unit)
UnitDrop_dispose ==
    /\ kind = "unit" /\ pc = "drop_dispose"
    /\ queue_ref' = "disposed"
    /\ running' = FALSE
    /\ hostCallback' = FALSE
    /\ pc' = UnitDropAfter("drop_dispose")
    /\ last' = StepCalls("drop_dispose", -1, TRUE, <<"AudioComponentInstanceDispose">>)
    /\ dropCalls' = Append(dropCalls, "AudioComponentInstanceDispose")
    /\ host' = [host EXCEPT !.wellFormed = @ /\ queue_ref # "disposed"]
    /\ UNCHANGED <<kind, listVars, poolVars, wrapper, wrapperFrees,
                   initialized, started>>

\* The callback field of the AudioUnit is dropped: a box, if there is one, is
\* freed.
UnitDrop_reclaim ==
    /\ kind = "unit" /\ pc = "drop_reclaim"
    /\ wrapper' = (IF wrapper = "live" THEN "freed" ELSE wrapper)
    /\ wrapperFrees' = (IF wrapper = "live" THEN wrapperFrees + 1 ELSE wrapperFrees)
    /\ pc' = UnitDropAfter("drop_reclaim")
    /\ last' = Step("drop_reclaim", -1, TRUE)
    /\ UNCHANGED <<kind, listVars, poolVars, running, queue_ref, unitVars>>

----------------------------------------------------------------------------

Init ==
    /\ kind \in Kinds
    /\ pc = "new"
    /\ buffer_count \in (IF kind = "output" THEN 1..MaxBuffers ELSE {0})
    /\ buffers = <<>>
    /\ next_buffer = <<>>
    /\ hostOwned = <<>>
    /\ freed = {}
    /\ freeCalls = <<>>
    /\ handle = <<>>
    /\ other = (IF kind = "output" THEN <<OtherBuffer>> ELSE <<>>)
    /\ running = FALSE
    /\ queue_ref = "none"
    /\ wrapper = "none"
    /\ wrapperFrees = 0
    /\ initialized = FALSE
    /\ started = FALSE
    /\ hostCallback = FALSE
    /\ dropCalls = <<>>
    /\ host = NoCalls
    /\ list = NoList
    /\ value = -1
    /\ others = [o \in Others |-> NoList]
    /\ acquired = <<>>
    /\ last = Step("init", -1, TRUE)

Next ==
    \/ \E ok \in BOOLEAN, k \in 0..buffer_count : AudioQueueOutput_new(ok, k)
    \/ \E ok \in BOOLEAN : AudioQueueOutput_start(ok)
    \/ \E ok \in BOOLEAN : AudioQueueOutput_stop(ok)
    \/ request_buffer_call
    \/ request_buffer
    \/ \E len \in 0..(BufferSize + 1) : handle_resize(len)
    \/ handle_fill
    \/ handle_swap_other
    \/ OtherPool_drop
    \/ \E enq \in BOOLEAN : handle_index_panic(enq)
    \/ \E ok \in BOOLEAN : handle_enqueue(ok)
    \/ handle_drop
    \/ \E b \in 0..(buffer_count - 1) : output_proc(b)
    \/ \E ok \in BOOLEAN : OutputDrop_stop(ok)
    \/ OutputDrop_clear
    \/ OutputDrop_dispose
    \/ OutputDrop_reclaim
    \/ \E ok \in BOOLEAN : AudioQueueInput_new(ok)
    \/ \E ok \in BOOLEAN : AudioQueueInput_start(ok)
    \/ \E ok \in BOOLEAN : AudioQueueInput_stop(ok)
    \/ input_proc
    \/ \E ok \in BOOLEAN : InputDrop_stop(ok)
    \/ InputDrop_dispose
    \/ InputDrop_reclaim
    \/ \E found, ok \in BOOLEAN : AudioUnit_new(found, ok)
    \/ \E ok \in BOOLEAN : AudioUnit_initialize(ok)
    \/ \E okStop, okUninit \in BOOLEAN : AudioUnit_uninitialize(okStop, okUninit)
    \/ \E okInit, okStart \in BOOLEAN : AudioUnit_start(okInit, okStart)
    \/ \E ok \in BOOLEAN : AudioUnit_stop(ok)
    \/ \E ok \in BOOLEAN : AudioUnit_set_stream_format(ok)
    \/ \E ok \in BOOLEAN : AudioUnit_set_render_callback(ok)
    \/ AudioUnit_set_render_callback_again
    \/ render_proc
    \/ \E ok \in BOOLEAN : UnitDrop_stop(ok)
    \/ \E okStop, okUninit \in BOOLEAN : UnitDrop_uninitialize(okStop, okUninit)
    \/ UnitDrop_dispose
    \/ UnitDrop_reclaim

Spec == Init /\ [][Next]_vars

----------------------------------------------------------------------------
(* Where an index of the pool is *)

\* The pool exists and is not being torn down.
Live == kind = "output" /\ pc \in ({"idle", "recv"} \cup HandlePcs)

Indices == 0..(buffer_count - 1)

InReady(i) == Count(i, next_buffer)

HandleHolds(i) == IF handle # <<>> /\ handle[1].index = i THEN 1 ELSE 0

HostHolds(i) == IF i \in DOMAIN hostOwned THEN hostOwned[i] ELSE 0

RECURSIVE SumHost(_)
SumHost(b) == IF b \in DOMAIN hostOwned THEN hostOwned[b] + SumHost(b + 1) ELSE 0

CheckedOut == Len(handle) + SumHost(0)

Distinct(s) == \A i, j \in 1..Len(s) : i # j => s[i] # s[j]

----------------------------------------------------------------------------
(* The pool *)

\* C1: while the pool exists every index 0..N-1 is in exactly one place (once
\* in the ready-queue, or in the handle, or with the host), the ready-queue
\* holds nothing else, and the pool has the N buffers it was built with.
C1_EveryIndexInExactlyOnePlace ==
    Live =>
        /\ Len(buffers) = buffer_count
        /\ Range(next_buffer) \subseteq Indices
        /\ \A i \in Indices : InReady(i) + HandleHolds(i) + HostHolds(i) = 1

\* C2: an index is held by one side at a time: never by the handle and the host
\* at once, never twice by the host, and an index waiting in the ready-queue
\* (one that request_buffer may return) is held by neither.
C2_OneHolderPerIndex ==
    Live =>
        /\ Len(handle) <= 1
        /\ \A i \in Indices : HandleHolds(i) + HostHolds(i) <= 1
        /\ \A i \in Range(next_buffer) : HandleHolds(i) = 0 /\ HostHolds(i) = 0

\* C3: right after an enqueue() that returned an error the handle's index is
\* back in the ready-queue, and no index is ever in none of the three places.
C3_FailedEnqueueReturnsTheIndex ==
    /\ (Live /\ last.op = "enqueue" /\ ~last.ok) => InReady(last.idx) = 1
    /\ Live => \A i \in Indices : InReady(i) + HandleHolds(i) + HostHolds(i) >= 1

\* C4: the step that drops a handle that was not enqueued appends the handle's
\* index to the ready-queue, once (the queue holds it once more than before and
\* is otherwise as it was), so that a request_buffer finds the queue non-empty
\* without any completion.
C4_DropReturnsTheIndexAtOnce ==
    [][(pc \in HandlePcs /\ last'.op = "drop") =>
          /\ next_buffer' = Append(next_buffer, handle[1].index)
          /\ Count(handle[1].index, next_buffer') =
                Count(handle[1].index, next_buffer) + 1
          /\ next_buffer' # <<>>
          /\ hostOwned' = hostOwned]_vars

\* C4 witness: a handle was dropped when nothing else was ready and the host
\* holds every other buffer: the dropped index alone makes the queue non-empty.
C4_Witness ==
    /\ Live /\ last.op = "drop" /\ next_buffer = <<last.idx>>
    /\ buffer_count > 1 /\ CheckedOut = buffer_count - 1

\* C5: a successful enqueue() leaves the index with the host and out of the
\* ready-queue; a host-owned index is never in the ready-queue; and a step
\* that puts a host-owned index into the ready-queue is a run of the
\* completion callback by which the host gives that buffer up.
C5_OnlyCompletionReturnsASubmittedIndex ==
    [][Live' =>
         \A i \in Indices :
            /\ (pc \in HandlePcs /\ last'.op = "enqueue" /\ last'.ok /\ last'.idx = i)
                  => (HostHolds(i)' = 1 /\ InReady(i)' = 0)
            /\ HostHolds(i)' > 0 => InReady(i)' = 0
            /\ (HostHolds(i) > 0 /\ InReady(i)' > InReady(i))
                  => /\ last'.op \in {"output_proc", "stop"}
                     /\ HostHolds(i)' = HostHolds(i) - 1]_vars

\* C6: the indices acquired since an index last came back are distinct; after
\* N of them the ready-queue is empty; a thread in request_buffer cannot
\* return while the queue is empty and can as soon as it is not; and the index
\* a completion brings back to a waiting thread is in the queue to be taken.
C6_AcquireUntilExhausted ==
    Live =>
        /\ Distinct(acquired) /\ Range(acquired) \subseteq Indices
        /\ Len(acquired) <= buffer_count
        /\ Len(acquired) = buffer_count => next_buffer = <<>>
        /\ (pc = "recv" /\ next_buffer = <<>>) => ~ENABLED request_buffer
        /\ (pc = "recv" /\ next_buffer # <<>>) => ENABLED request_buffer
        /\ (pc = "recv" /\ last.op = "output_proc") => last.idx \in Range(next_buffer)

----------------------------------------------------------------------------
(* A fair host *)

\* A host that keeps the stream going completes every buffer it holds: the
\* completion of each buffer is weakly fair.
HostFair == \A b \in 0..(MaxBuffers - 1) : WF_vars(output_proc(b))

FairSpec == Spec /\ HostFair

----------------------------------------------------------------------------
(* The producer loop of test_queue_output *)

\* buf.resize(len), with lengths below, at and above the capacity.
Producer_resize == pc = "held" /\ \E len \in 0..(BufferSize + 1) : handle_resize(len)

\* for sample in buf.iter_mut() { ... }
Producer_fill == pc = "resized" /\ handle_fill

\* buf.enqueue().unwrap(), the host accepting the buffer.
Producer_enqueue == pc = "filled" /\ handle_enqueue(TRUE)

ProducerInit == Init /\ kind = "output"

ProducerNext ==
    \/ AudioQueueOutput_new(TRUE, buffer_count)
    \/ (~running /\ AudioQueueOutput_start(TRUE))
    \/ (running /\ request_buffer_call)
    \/ request_buffer
    \/ Producer_resize
    \/ Producer_fill
    \/ Producer_enqueue
    \/ \E b \in 0..(buffer_count - 1) : output_proc(b)

\* The loop against a host that keeps completing buffers; a thread blocked in
\* recv() runs once the channel holds an index.
ProducerSpec ==
    ProducerInit /\ [][ProducerNext]_vars /\ HostFair /\ WF_vars(request_buffer)

\* What no step of the loop may break: every step returns Ok; the handle's
\* index is a position of the pool's array (buffers[index] does not panic);
\* the slice a buffer hands out lies within its capacity; the channel holds
\* only indices of the pool; and at most N buffers are checked out.
ProducerSafe ==
    /\ last.ok
    /\ Len(buffers) = buffer_count \/ pc = "new"
    /\ handle # <<>> => handle[1].index \in 0..(Len(buffers) - 1)
    /\ \A i \in 1..Len(buffers) :
          deref_len(buffers[i]) * SampleSize <= buffers[i].mAudioDataBytesCapacity
    /\ Range(next_buffer) \subseteq Indices
    /\ CheckedOut <= buffer_count

\* C8: in the producer loop no step fails or panics, at most N buffers are
\* checked out, and every request_buffer eventually returns.
C8_ProducerLoop ==
    /\ []ProducerSafe
    /\ (pc = "recv") ~> (pc = "held")

\* C8 witness: the loop has gone round more than once: a buffer resized above
\* its capacity and filled was enqueued while the host held the other N - 1,
\* all N are checked out, and a completed one is acquired again.
C8_Witness ==
    /\ kind = "output" /\ pc = "held" /\ buffer_count > 1
    /\ CheckedOut = buffer_count
    /\ buffers[handle[1].index + 1].mAudioDataByteSize = BufferSize * SampleSize

----------------------------------------------------------------------------
(* Teardown *)

\* C9: no buffer passed to AudioQueueFreeBuffer is owned by the host.
C9_NoBufferFreedWhileHostOwned ==
    \A b \in freed : HostHolds(b) = 0

\* C10: the callback box is reclaimed at most once, only once the host object
\* is disposed, and is reclaimed when the teardown is over; and whenever the
\* host runs a trampoline (output_proc, also for the buffers a stop hands
\* back; input_proc; the render input_proc) the box is alive.
C10_BoxReclaimedOnceAfterDispose ==
    /\ wrapperFrees <= 1
    /\ wrapper = "freed" <=> wrapperFrees = 1
    /\ wrapper = "freed" => queue_ref = "disposed"
    /\ pc = "dropped" => wrapper \in {"freed", "none"} /\ queue_ref = "disposed"
    /\ (pc = "dropped" /\ kind \in {"output", "input"}) => wrapperFrees = 1
    /\ last.op \in {"output_proc", "input_proc", "render_proc"} => wrapper = "live"
    /\ (kind = "output" /\ last.op \in {"stop", "drop_stop"}) => wrapper = "live"

\* C10 witness: a teardown whose stop call failed has ended with the host
\* object disposed and the box reclaimed once.
C10_Witness ==
    /\ pc = "dropped" /\ wrapper = "freed" /\ wrapperFrees = 1
    /\ queue_ref = "disposed" /\ freed # {}

----------------------------------------------------------------------------
(* The callback box on the constructors' paths *)

\* C11: each box created by AudioQueueOutput::new or AudioQueueInput::new is
\* reclaimed exactly once on every path: when the constructor has returned an
\* error (the host did not create the queue, or a buffer was not allocated and
\* the partly built queue was dropped) and when a built queue has been dropped,
\* the box is freed and was freed once.
C11_EveryBoxReclaimedOnce ==
    (kind \in {"output", "input"} /\ pc \in {"failed", "dropped"}) =>
        /\ wrapper = "freed"
        /\ wrapperFrees = 1

----------------------------------------------------------------------------
(* The AudioUnit lifecycle *)

\* C12: in every state of an AudioUnit reached by any sequence of initialize,
\* start, stop and uninitialize calls (and by its teardown), whatever each host
\* call returned, started implies initialized.
C12_StartedImpliesInitialized ==
    kind = "unit" => (started => initialized)

\* C12 witness: an uninitialize() of a started unit has failed because the
\* host refused to stop it: the unit is still started, and initialized.
C12_Witness ==
    /\ kind = "unit" /\ last.op = "uninitialize" /\ ~last.ok
    /\ last.calls = <<"AudioOutputUnitStop">>
    /\ started /\ initialized

\* C13: start() on a started unit and initialize() on an initialized unit
\* return Ok, make no host call and leave the flags as they were; so of two
\* successful start() calls in a row the second adds no host-side start to the
\* (at most one) start the first made.
C13_IdempotentTransitions ==
    [][kind = "unit" =>
          /\ (last'.op = "start" /\ started) =>
                /\ last'.ok /\ last'.calls = <<>>
                /\ UNCHANGED <<initialized, started, running>>
          /\ (last'.op = "initialize" /\ initialized) =>
                /\ last'.ok /\ last'.calls = <<>>
                /\ UNCHANGED <<initialized, started, running>>
          /\ (last.op = "start" /\ last.ok /\ last'.op = "start") =>
                /\ last'.ok
                /\ Count("AudioOutputUnitStart", last.calls \o last'.calls)
                      = Count("AudioOutputUnitStart", last.calls)
                /\ Count("AudioOutputUnitStart", last.calls) <= 1]_vars

\* C13 witness: a start() has just returned Ok on a unit that was started,
\* without a host call.
C13_Witness ==
    /\ kind = "unit" /\ last.op = "start" /\ last.ok /\ last.calls = <<>>
    /\ started /\ initialized /\ running

\* C14: a stop() (called by the application or by Drop) on a unit that is not
\* started returns Ok, makes no host call and changes nothing; on a started
\* unit whose host stop succeeds it makes that one host call and leaves the
\* unit Initialized: initialized = TRUE, started = FALSE.
C14_Stop ==
    [][(kind = "unit" /\ last'.op \in {"stop", "drop_stop"}) =>
          /\ ~started =>
                /\ last'.ok /\ last'.calls = <<>>
                /\ UNCHANGED <<initialized, started, running, hostCallback,
                               wrapper, queue_ref>>
          /\ (started /\ last'.ok) =>
                /\ last'.calls = <<"AudioOutputUnitStop">>
                /\ initialized' /\ ~started']_vars

\* C14 witness: a stop() of a started unit has succeeded.
C14_Witness ==
    /\ kind = "unit" /\ last.op = "stop" /\ last.ok
    /\ last.calls = <<"AudioOutputUnitStop">>
    /\ initialized /\ ~started /\ ~running

----------------------------------------------------------------------------
(* The teardown of an AudioUnit *)

\* C15: the destruction of an AudioUnit, begun in any lifecycle state and
\* whatever its stop and uninitialize host calls return, calls
\* AudioComponentInstanceDispose exactly once: never before the stop and the
\* uninitialize were gone through, once when the destruction is over; and no
\* step of it ends the destruction early with an error or a panic: after the
\* stop comes the uninitialize, after the uninitialize the dispose, after the
\* dispose the drop of the fields, whatever the step returned.
C15_DestroyDisposesOnce ==
    kind = "unit" =>
        /\ Count("AudioComponentInstanceDispose", dropCalls) =
              (IF pc \in {"drop_reclaim", "dropped"} THEN 1 ELSE 0)
        /\ pc \in {"drop_reclaim", "dropped"} <=> queue_ref = "disposed"
        /\ last.op = "drop_stop" => pc = "drop_uninit"
        /\ last.op = "drop_uninit" => pc = "drop_dispose"
        /\ last.op = "drop_dispose" => pc = "drop_reclaim"

\* C15 witness: a started unit has been destroyed with its host stop failing
\* both times it was tried; the host object was disposed once.
C15_Witness ==
    /\ kind = "unit" /\ pc = "dropped" /\ started /\ initialized
    /\ dropCalls = <<"AudioOutputUnitStop", "AudioOutputUnitStop",
                     "AudioComponentInstanceDispose">>
    /\ queue_ref = "disposed"

\* a is called, and later b, in the sequence s of host calls.
Before(a, b, s) == \E i, j \in 1..Len(s) : i < j /\ s[i] = a /\ s[j] = b

\* C16: when the destruction of a started (and so initialized) unit, whose
\* first host call is the stop, has disposed the host object, the host stop
\* was attempted before the host uninitialize and the host uninitialize
\* before the host dispose, whatever the stop returned.
C16_StopThenUninitializeThenDispose ==
    (/\ kind = "unit" /\ pc \in {"drop_reclaim", "dropped"}
     /\ dropCalls # <<>> /\ dropCalls[1] = "AudioOutputUnitStop") =>
        /\ Before("AudioOutputUnitStop", "AudioUnitUninitialize", dropCalls)
        /\ Before("AudioUnitUninitialize", "AudioComponentInstanceDispose", dropCalls)

----------------------------------------------------------------------------
(* Failed calls on an AudioUnit *)

\* C17: a start() or stop() that returns an error leaves the flags
\* (initialized, started) as they were before the call, also a start() on a
\* unit not yet initialized whose implicit initialize succeeds and whose host
\* start then fails.
C17_FailedStartStopChangesNothing ==
    [][(kind = "unit" /\ last'.op \in {"start", "stop"} /\ ~last'.ok) =>
          UNCHANGED <<initialized, started>>]_vars

\* C18: an initialize() the host rejects returns the error and leaves the unit
\* Created (initialized = FALSE, started = FALSE), having asked the host once;
\* and an initialize() on a unit that is not initialized, so also one that
\* follows a rejected one, asks the host.
C18_RejectedInitialize ==
    [][(kind = "unit" /\ last'.op = "initialize") =>
          /\ ~last'.ok =>
                /\ ~initialized /\ ~started
                /\ ~initialized' /\ ~started'
                /\ last'.calls = <<"AudioUnitInitialize">>
          /\ ~initialized => last'.calls = <<"AudioUnitInitialize">>
          /\ (last.op = "initialize" /\ ~last.ok) =>
                last'.calls = <<"AudioUnitInitialize">>]_vars

\* C18 witness: the host has just rejected an initialize(); the unit is Created.
C18_Witness ==
    /\ kind = "unit" /\ last.op = "initialize" /\ ~last.ok
    /\ last.calls = <<"AudioUnitInitialize">>
    /\ ~initialized /\ ~started /\ pc = "idle"

\* C19: after a set_render_callback the host rejected, no callback is
\* recorded on the unit; and the assertion against a second registration
\* fails only on a unit whose registration the host accepted, so that a retry
\* after a rejected one is not treated as a second registration.
C19_FailedRegistrationRecordsNothing ==
    kind = "unit" =>
        /\ (last.op = "set_render_callback" /\ ~last.ok) => wrapper = "none"
        /\ last.op = "set_render_callback_panic" => hostCallback

\* C20: a set_render_callback on a unit that has a callback registered is
\* rejected by the assertion: the step makes no host call and neither replaces
\* nor frees the box the host references; and no registration goes through to
\* the host on a unit that has a callback.
C20_SecondRegistrationRejected ==
    [][kind = "unit" =>
          /\ last'.op = "set_render_callback_panic" =>
                /\ wrapper # "none"
                /\ ~last'.ok /\ last'.calls = <<>>
                /\ UNCHANGED <<wrapper, wrapperFrees, hostCallback, queue_ref>>
          /\ last'.op = "set_render_callback" =>
                wrapper = "none" /\ ~hostCallback]_vars

\* C20 witness: the assertion has just failed on a unit whose callback the
\* host holds; the box is alive and was not freed.
C20_Witness ==
    /\ kind = "unit" /\ last.op = "set_render_callback_panic"
    /\ hostCallback /\ wrapper = "live" /\ wrapperFrees = 0
    /\ queue_ref = "live"

----------------------------------------------------------------------------
(* Property mutation on an AudioUnit *)

\* C21: while the unit is started, set_stream_format and set_render_callback
\* are rejected by the wrapper: the call returns an error and makes no host
\* property call.
C21_NoPropertyMutationWhileStarted ==
    [][(/\ kind = "unit" /\ started
        /\ last'.op \in {"set_stream_format", "set_render_callback"}) =>
          /\ ~last'.ok
          /\ last'.calls = <<>>]_vars

----------------------------------------------------------------------------
(* AudioQueueBuffer *)

Min(a, b) == IF a < b THEN a ELSE b

Max(a, b) == IF a > b THEN a ELSE b

\* The capacity of a buffer, in samples.
Capacity(buf) == buf.mAudioDataBytesCapacity \div SampleSize

\* C22: for every buffer of the pool, as any sequence of resizes has left it,
\* the length is at most the capacity C, and resize(len) gives the length
\* min(max(len, 0), C), leaves the capacity as it is, and done again with the
\* same len changes nothing; and a resize step touches nothing but the length
\* of the handle's buffer.
C22_ResizeClamps ==
    /\ [](kind = "output" =>
            \A i \in 1..Len(buffers) :
               /\ deref_len(buffers[i]) <= Capacity(buffers[i])
               /\ Capacity(buffers[i]) = BufferSize
               /\ \A len \in 0..(BufferSize + 1) :
                     LET r == resize(buffers[i], len)
                     IN  /\ deref_len(r) = Min(Max(len, 0), Capacity(buffers[i]))
                         /\ r.mAudioDataBytesCapacity = buffers[i].mAudioDataBytesCapacity
                         /\ r.mUserData = buffers[i].mUserData
                         /\ resize(r, len) = r)
    /\ [][(kind = "output" /\ last'.op = "resize") =>
            /\ Len(buffers') = Len(buffers)
            /\ \A i \in 1..Len(buffers) :
                  /\ Capacity(buffers'[i]) = Capacity(buffers[i])
                  /\ deref_len(buffers'[i]) <= Capacity(buffers[i])
                  /\ i # handle[1].index + 1 => buffers'[i] = buffers[i]]_vars

\* C22 witness: a resize has just left the handle's buffer at its full
\* capacity, while the other buffer of the pool has length 0.
C22_Witness ==
    /\ kind = "output" /\ pc = "resized" /\ last.op = "resize"
    /\ Len(buffers) > 1
    /\ deref_len(buffers[handle[1].index + 1]) = BufferSize
    /\ \E i \in 1..Len(buffers) : deref_len(buffers[i]) = 0

----------------------------------------------------------------------------
(* AudioBufferList (src/src/unit/buffer.rs).  An owned list is the record    *)
(* of what AudioBufferList::new allocates and writes: the length in bytes of *)
(* the header allocation, the count field, the descriptors, and the length  *)
(* in samples of the one data allocation.  A descriptor's data pointer is   *)
(* the position in the data allocation it points to.  The sizes stay far    *)
(* below 2^32, so the `as u32` casts change none of them.                   *)

\* Largest buffers (n_buffers below), channels and frames passed to
\* AudioBufferList::new.
MaxListBuffers == 2

MaxChannels == 2

MaxFrames == 2

\* mem::size_of::<sys::AudioBufferList>(): the count, padding, one descriptor.
ListByteSize == 24

\* mem::size_of::<sys::AudioBuffer>()
BufferByteSize == 16

\* <[S]>::split_at_mut(mid) on the slice left of the data allocation.
split_at_mut(left, mid) ==
    [data |-> [off |-> left.off, len |-> mid],
     left |-> [off |-> left.off + mid, len |-> left.len - mid]]

\* The loop over to_fill, n descriptors still to write: chunk off the samples
\* of one buffer, keep what is left, write the descriptor.  split_at_mut
\* panics when the chunk is longer than what is left.
RECURSIVE to_fill(_, _, _)
to_fill(n, st, a) ==
    IF n = 0 \/ ~st.ok THEN st
    ELSE IF a.samples_per_buffer > st.left.len THEN [st EXCEPT !.ok = FALSE]
    ELSE LET sp == split_at_mut(st.left, a.samples_per_buffer)
             buffer == [channels |-> a.channels,
                        data_byte_size |-> a.bytes_per_buffer,
                        data |-> sp.data.off]
         IN  to_fill(n - 1,
                     [mBuffers |-> Append(st.mBuffers, buffer),
                      left |-> sp.left, ok |-> TRUE],
                     a)

\* AudioBufferList::new rejecting nothing: the assertion left out.
owned_list_unchecked(n_buffers, channels, frames) ==
    [state |-> "owned", args |-> <<n_buffers, channels, frames>>,
     audio_buffer_list |-> ListByteSize + (n_buffers - 1) * BufferByteSize,
     mNumberBuffers |-> n_buffers,
     mBuffers |-> [i \in 1..n_buffers |->
                     [channels |-> channels,
                      data_byte_size |-> channels * frames * SampleSize,
                      data |-> (i - 1) * channels * frames]],
     audio_data |-> n_buffers * channels * frames,
     left |-> 0]

\* AudioBufferList::new storing the sample count where the byte count belongs.
owned_list_samples(n_buffers, channels, frames) ==
    IF ~(n_buffers >= 1)
    THEN [state |-> "panicked", args |-> <<n_buffers, channels, frames>>]
    ELSE [owned_list_unchecked(n_buffers, channels, frames) EXCEPT
             !.mBuffers = [i \in 1..n_buffers |->
                             [channels |-> channels,
                              data_byte_size |-> channels * frames,
                              data |-> (i - 1) * channels * frames]]]

\* AudioBufferList::new allocating the fixed header only.
owned_list_header(n_buffers, channels, frames) ==
    IF ~(n_buffers >= 1)
    THEN [state |-> "panicked", args |-> <<n_buffers, channels, frames>>]
    ELSE [owned_list_unchecked(n_buffers, channels, frames) EXCEPT
             !.audio_buffer_list = ListByteSize]

\* AudioBufferList::new
owned_list(n_buffers, channels, frames) ==
    IF ~(n_buffers >= 1)
    THEN [state |-> "panicked", args |-> <<n_buffers, channels, frames>>]
    ELSE LET list_byte_size     == ListByteSize
             buffer_byte_size   == BufferByteSize
             buffer_array_size  == (n_buffers - 1) * buffer_byte_size
             samples_per_buffer == channels * frames
             samples_total      == n_buffers * samples_per_buffer
             bytes_per_buffer   == samples_per_buffer * SampleSize
             filled == to_fill(n_buffers,
                               [mBuffers |-> <<>>,
                                left |-> [off |-> 0, len |-> samples_total],
                                ok |-> TRUE],
                               [channels |-> channels,
                                samples_per_buffer |-> samples_per_buffer,
                                bytes_per_buffer |-> bytes_per_buffer])
         IN  IF ~filled.ok
             THEN [state |-> "panicked", args |-> <<n_buffers, channels, frames>>]
             ELSE [state |-> "owned", args |-> <<n_buffers, channels, frames>>,
                   audio_buffer_list |-> list_byte_size + buffer_array_size,
                   mNumberBuffers |-> n_buffers,
                   mBuffers |-> filled.mBuffers,
                   audio_data |-> samples_total,
                   left |-> filled.left.len]

\* AudioBufferList::buffers (and Deref): the length of the slice of descriptors.
buffers_len(l) == l.mNumberBuffers

\* AudioBuffer::channels
channels_of(b) == b.channels

\* AudioBuffer::samples (and Deref): the length of the slice of samples.
samples_len(b) == b.data_byte_size \div SampleSize

\* AudioBuffer::frames; the division panics when channels is 0.
frames_of(b) == samples_len(b) \div channels_of(b)

\* AudioBufferList::new(buffers, channels, frames) is called.
AudioBufferList_new(n_buffers, channels, frames) ==
    /\ kind = "list" /\ pc = "new"
    /\ list' = owned_list(n_buffers, channels, frames)
    /\ pc' = (IF list'.state = "owned" THEN "idle" ELSE "panicked")
    /\ value' = -1
    /\ last' = Step("new", -1, list'.state = "owned")
    /\ UNCHANGED <<kind, others, poolVars, running, queue_ref, wrapper, wrapperFrees,
                   unitVars>>

\* list.len()
AudioBufferList_len ==
    /\ kind = "list" /\ pc = "idle"
    /\ value' = buffers_len(list)
    /\ last' = Step("len", -1, TRUE)
    /\ UNCHANGED <<kind, pc, list, others, poolVars, running, queue_ref, wrapper,
                   wrapperFrees, unitVars>>

\* list[i]: Index through Deref; an index that is not below len() panics.
\* What the thread does after reading entry i with the accessor get.
Indexed(op, i, panics, got) ==
    IF ~(i < buffers_len(list)) \/ panics
    THEN /\ pc' = "panicked"
         /\ value' = -1
         /\ last' = Step(op, i, FALSE)
    ELSE /\ pc' = pc
         /\ value' = got
         /\ last' = Step(op, i, TRUE)

\* list[i].channels()
AudioBuffer_channels(i) ==
    /\ kind = "list" /\ pc = "idle"
    /\ Indexed("channels", i, FALSE, channels_of(list.mBuffers[i + 1]))
    /\ UNCHANGED <<kind, list, others, poolVars, running, queue_ref, wrapper,
                   wrapperFrees, unitVars>>

\* list[i].frames(); the division panics when channels is 0.
AudioBuffer_frames(i) ==
    /\ kind = "list" /\ pc = "idle"
    /\ Indexed("frames", i,
               i < buffers_len(list) /\ channels_of(list.mBuffers[i + 1]) = 0,
               frames_of(list.mBuffers[i + 1]))
    /\ UNCHANGED <<kind, list, others, poolVars, running, queue_ref, wrapper,
                   wrapperFrees, unitVars>>

\* list[i].samples().len()
AudioBuffer_samples(i) ==
    /\ kind = "list" /\ pc = "idle"
    /\ Indexed("samples", i, FALSE, samples_len(list.mBuffers[i + 1]))
    /\ UNCHANGED <<kind, list, others, poolVars, running, queue_ref, wrapper,
                   wrapperFrees, unitVars>>

\* <[T]>::swap(i, j) on the slice of descriptors.
swap(bs, i, j) ==
    [n \in DOMAIN bs |-> IF n = i + 1 THEN bs[j + 1]
                         ELSE IF n = j + 1 THEN bs[i + 1]
                         ELSE bs[n]]

\* list.buffers_mut().swap(i, j) (the same slice through DerefMut): the
\* descriptors change places; an index that is not below len() panics.
AudioBufferList_swap(i, j) ==
    /\ kind = "list" /\ pc = "idle"
    /\ IF i < buffers_len(list) /\ j < buffers_len(list)
       THEN /\ list' = [list EXCEPT !.mBuffers = swap(@, i, j)]
            /\ pc' = pc
            /\ last' = Step("swap", i, TRUE)
       ELSE /\ list' = list
            /\ pc' = "panicked"
            /\ last' = Step("swap", i, FALSE)
    /\ value' = -1
    /\ UNCHANGED <<kind, others, poolVars, running, queue_ref, wrapper, wrapperFrees,
                   unitVars>>

\* The inNumberFrames argument AudioUnit::render gives AudioUnitRender.
RenderFrames == 512

\* The shapes (channels, frames) the other lists are built with.
OtherShapes == {<<1, 1>>, <<MaxChannels, MaxFrames>>}

\* The samples of the largest data allocation the list is built with.
MaxListSamples == MaxListBuffers * MaxChannels * RenderFrames

\* The places the allocator has for the data of the other lists, each large
\* enough for any of them and apart from the data of the list (at 0).
DataSlots == {MaxListSamples, MaxListSamples + MaxChannels * MaxFrames}

\* The places that hold the data of an other list that exists.  The place of
\* a dropped list is released and may be given out again.
LiveData == {others[o].base : o \in {p \in Others : others[p].state = "owned"}}

\* o = AudioBufferList::new(1, channels, frames) with its data allocated at
\* base: its descriptor points into that allocation.
other_list(base, channels, frames) ==
    LET l == owned_list(1, channels, frames)
    IN  [state |-> l.state, args |-> l.args,
         audio_buffer_list |-> l.audio_buffer_list,
         mNumberBuffers |-> l.mNumberBuffers,
         mBuffers |-> <<[l.mBuffers[1] EXCEPT !.data = base + @]>>,
         audio_data |-> l.audio_data, left |-> l.left,
         base |-> base]

\* let o = AudioBufferList::new(1, channels, frames); the allocator puts its
\* data at base, a place no list that exists has: a free place or the place
\* of a list dropped before, which a descriptor swapped out of that list
\* still points into.
Other_new(o, base, channels, frames) ==
    /\ kind = "list" /\ pc = "idle"
    /\ others[o].state = "none"
    /\ base \in DataSlots \ LiveData
    /\ others' = [others EXCEPT ![o] = other_list(base, channels, frames)]
    /\ value' = -1
    /\ last' = Step("other_new", -1, TRUE)
    /\ UNCHANGED <<kind, pc, list, poolVars, running, queue_ref, wrapper,
                   wrapperFrees, unitVars>>

\* drop(o): the header and the data allocation of o are released, whatever
\* descriptor the header holds by now.
Other_drop(o) ==
    /\ kind = "list" /\ pc = "idle"
    /\ others[o].state = "owned"
    /\ others' = [others EXCEPT ![o] = [state |-> "dropped"]]
    /\ value' = -1
    /\ last' = Step("other_drop", -1, TRUE)
    /\ UNCHANGED <<kind, pc, list, poolVars, running, queue_ref, wrapper,
                   wrapperFrees, unitVars>>

\* mem::swap(&mut list[i], &mut o[0]) with IndexMut through DerefMut: entry i
\* of the list and the entry of o change places; an index that is not below
\* len() panics.
AudioBuffer_swap_other(i, o) ==
    /\ kind = "list" /\ pc = "idle"
    /\ others[o].state = "owned"
    /\ IF i < buffers_len(list)
       THEN /\ list' = [list EXCEPT !.mBuffers[i + 1] = others[o].mBuffers[1]]
            /\ others' = [others EXCEPT
                             ![o].mBuffers[1] = list.mBuffers[i + 1]]
            /\ pc' = pc
            /\ last' = Step("swap_other", i, TRUE)
       ELSE /\ list' = list
            /\ others' = others
            /\ pc' = "panicked"
            /\ last' = Step("swap_other", i, FALSE)
    /\ value' = -1
    /\ UNCHANGED <<kind, poolVars, running, queue_ref, wrapper, wrapperFrees,
                   unitVars>>

\* AudioUnit::render: the frame count asked of the host for the list output.
render_frames(output) == RenderFrames

\* unit.render(time, &mut list) on some AudioUnit; ok is the status of
\* AudioUnitRender.  value records the frame count the host was asked for.
AudioUnit_render(ok) ==
    /\ kind = "list" /\ pc = "idle"
    /\ value' = render_frames(list)
    /\ last' = StepCalls("render", -1, ok, <<"AudioUnitRender">>)
    /\ UNCHANGED <<kind, pc, list, others, poolVars, running, queue_ref, wrapper,
                   wrapperFrees, unitVars>>

\* Before AudioBufferList::new: nothing else exists.
ListInit ==
    /\ kind = "list"
    /\ pc = "new"
    /\ buffer_count = 0
    /\ buffers = <<>>
    /\ next_buffer = <<>>
    /\ hostOwned = <<>>
    /\ freed = {}
    /\ freeCalls = <<>>
    /\ handle = <<>>
    /\ other = <<>>
    /\ running = FALSE
    /\ queue_ref = "none"
    /\ wrapper = "none"
    /\ wrapperFrees = 0
    /\ initialized = FALSE
    /\ started = FALSE
    /\ hostCallback = FALSE
    /\ dropCalls = <<>>
    /\ host = NoCalls
    /\ list = NoList
    /\ value = -1
    /\ others = [o \in Others |-> NoList]
    /\ acquired = <<>>
    /\ last = Step("init", -1, TRUE)

ListNext ==
    \/ \E b \in 0..MaxListBuffers, c \in 0..MaxChannels,
          f \in 0..MaxFrames \cup {RenderFrames} :
          AudioBufferList_new(b, c, f)
    \/ AudioBufferList_len
    \/ \E i \in 0..(MaxListBuffers - 1) : AudioBuffer_channels(i)
    \/ \E i \in 0..(MaxListBuffers - 1) : AudioBuffer_frames(i)
    \/ \E i \in 0..(MaxListBuffers - 1) : AudioBuffer_samples(i)
    \/ \E i, j \in 0..(MaxListBuffers - 1) : AudioBufferList_swap(i, j)
    \/ \E o \in Others, base \in DataSlots, shape \in OtherShapes :
          Other_new(o, base, shape[1], shape[2])
    \/ \E o \in Others : Other_drop(o)
    \/ \E i \in 0..(MaxListBuffers - 1), o \in Others :
          AudioBuffer_swap_other(i, o)
    \/ \E ok \in BOOLEAN : AudioUnit_render(ok)

ListSpec == ListInit /\ [][ListNext]_vars

----------------------------------------------------------------------------
(* The shape of an owned AudioBufferList *)

\* The samples the descriptors bs give access to, together.
RECURSIVE TotalSamples(_)
TotalSamples(bs) ==
    IF bs = <<>> THEN 0 ELSE samples_len(Head(bs)) + TotalSamples(Tail(bs))

\* The list is as AudioBufferList::new built it: no descriptor was replaced
\* or moved through buffers_mut() since.
AsBuilt ==
    /\ kind = "list" /\ list.state # "none"
    /\ list = owned_list(list.args[1], list.args[2], list.args[3])

\* C23: for buffers >= 1, channels >= 1 and frames >= 1,
\* AudioBufferList::new(buffers, channels, frames) returns a list whose len()
\* is buffers, whose every entry has channels() = channels and frames() =
\* frames, and whose sample capacity is buffers * channels * frames; and the
\* accessors return these values when called on an entry of the list.
C23_OwnedListShape ==
    (/\ AsBuilt
     /\ list.args[1] >= 1 /\ list.args[2] >= 1 /\ list.args[3] >= 1) =>
        /\ list.state = "owned"
        /\ buffers_len(list) = list.args[1]
        /\ Len(list.mBuffers) = list.args[1]
        /\ \A i \in 1..buffers_len(list) :
              /\ channels_of(list.mBuffers[i]) = list.args[2]
              /\ frames_of(list.mBuffers[i]) = list.args[3]
        /\ TotalSamples(list.mBuffers) = list.args[1] * list.args[2] * list.args[3]
        /\ list.audio_data = list.args[1] * list.args[2] * list.args[3]
        /\ last.op \in {"new", "len"} => last.ok
        /\ last.op \in {"channels", "frames", "samples"} =>
              (last.ok <=> last.idx < list.args[1])
        /\ (last.op = "len" /\ last.ok) => value = list.args[1]
        /\ (last.op = "channels" /\ last.ok) => value = list.args[2]
        /\ (last.op = "frames" /\ last.ok) => value = list.args[3]
        /\ (last.op = "samples" /\ last.ok) =>
              value = list.args[2] * list.args[3]

\* C23 witness: frames() of the second entry of a list built for two buffers,
\* MaxChannels channels and one frame has returned 1.
C23_Witness ==
    /\ kind = "list" /\ list.state = "owned"
    /\ list.args = <<2, MaxChannels, 1>>
    /\ last.op = "frames" /\ last.idx = 1 /\ value = 1

\* C24: AudioBufferList::new(0, c, f) returns normally (no failure, no
\* division by zero) with a list of length 0, which holds no samples.
C24_EmptyList ==
    (kind = "list" /\ list.state # "none" /\ list.args[1] = 0) =>
        /\ list.state = "owned"
        /\ last.ok
        /\ buffers_len(list) = 0
        /\ TotalSamples(list.mBuffers) = 0

\* The positions of the data allocation the descriptor b gives access to.
Slice(b) == {b.data + k : k \in 0..(samples_len(b) - 1)}

\* C25: in an owned list the data allocation has buffers * channels * frames
\* samples; entry i (counted from 0) covers exactly the samples from
\* i * channels * frames up to (i + 1) * channels * frames; no two entries
\* overlap; and the entries together cover the allocation, the loop leaving
\* nothing over.
C25_OneAllocationSlicedExactly ==
    (kind = "list" /\ list.state = "owned") =>
        LET per == list.args[2] * list.args[3]
        IN  /\ list.audio_data = list.args[1] * per
            /\ \A i \in 1..Len(list.mBuffers) :
                  Slice(list.mBuffers[i]) = {k \in 0..(list.audio_data - 1) :
                                               (i - 1) * per <= k /\ k < i * per}
            /\ \A i, j \in 1..Len(list.mBuffers) :
                  i # j => Slice(list.mBuffers[i]) \cap Slice(list.mBuffers[j]) = {}
            /\ UNION {Slice(list.mBuffers[i]) : i \in 1..Len(list.mBuffers)}
                  = 0..(list.audio_data - 1)
            /\ list.left = 0

----------------------------------------------------------------------------
(* The host allocations of AudioQueueBuffers *)

\* C26: every owned AudioQueueBuffer frees its host buffer exactly once when
\* it is destroyed: no buffer is freed twice; a buffer that is in the pool's
\* array or behind the other pool's handle has not been freed; a free call is
\* made only when an array is cleared, and then one per buffer the array
\* held, each for that buffer, whichever pool allocated it; and the borrowed
\* buffers an input queue hands to its callback are never freed, however
\* many the host delivers.
C26_OwnedFreedOnceBorrowedNever ==
    /\ [](/\ Distinct(freeCalls)
          /\ kind = "output" =>
                /\ \A n \in DOMAIN buffers :
                      buffer_ref(buffers[n]) \notin Range(freeCalls)
                /\ \A n \in DOMAIN other :
                      buffer_ref(other[n]) \notin Range(freeCalls)
                /\ pc \in {"drop_dispose", "drop_reclaim", "dropped"} =>
                      buffers = <<>>
          /\ kind = "input" => freeCalls = <<>>)
    /\ [][/\ (kind = "output" /\ last'.op = "drop_clear") =>
               freeCalls' = freeCalls \o
                   [n \in DOMAIN buffers |-> buffer_ref(buffers[n])]
          /\ (kind = "output" /\ last'.op = "other_pool_drop") =>
               freeCalls' = freeCalls \o
                   [n \in DOMAIN OtherBuffers |-> buffer_ref(OtherBuffers[n])]
          /\ freeCalls' # freeCalls =>
               last'.op \in {"drop_clear", "other_pool_drop"}]_vars

\* C26 witness: a pool of more than one buffer has been dropped to the end
\* after the other pool, which held one of its buffers: every buffer of both
\* pools was freed.
C26_Witness ==
    /\ kind = "output" /\ pc = "dropped" /\ other = <<>>
    /\ Len(freeCalls) = buffer_count + MaxBuffers /\ buffer_count > 1
    /\ freeCalls[MaxBuffers][1] = "this"
    /\ last.op = "drop_reclaim"

----------------------------------------------------------------------------
(* Host calls and the errors they give *)

\* What a method did (r: what it returned and the host calls it made), given
\* the status each host call returns (status[c]: TRUE for 0): no host call is
\* made twice, the method returns Ok exactly when every call it made returned
\* 0, and only the last call it made can have returned nonzero.
WellReported(r, status) ==
    /\ Distinct(r.calls)
    /\ Range(r.calls) \subseteq DOMAIN status
    /\ r.ret <=> \A i \in 1..Len(r.calls) : status[r.calls[i]]
    /\ \A i \in 1..(Len(r.calls) - 1) : status[r.calls[i]]

\* C27: in every state of an AudioUnit, and for every status the host may
\* return to each call, initialize, uninitialize, start, stop and set_property
\* make each of their host calls at most once, return an error exactly when a
\* host call returned a nonzero status, and make no host call after the first
\* nonzero status; the steps taken report calls of this kind, an error only
\* after a host call; and an enqueue gives the buffer to the host at most
\* once and returns Ok exactly when the host took it.
C27_HostCallsOnceNoRetry ==
    /\ [](kind = "unit" =>
            /\ \A a, b \in BOOLEAN :
                  /\ WellReported(unit_initialize(Unit, a),
                                  [c \in {"AudioUnitInitialize"} |-> a])
                  /\ WellReported(unit_stop(Unit, a),
                                  [c \in {"AudioOutputUnitStop"} |-> a])
                  /\ WellReported(unit_start(Unit, a, b),
                                  [c \in {"AudioUnitInitialize", "AudioOutputUnitStart"}
                                     |-> IF c = "AudioUnitInitialize" THEN a ELSE b])
                  /\ WellReported(unit_uninitialize(Unit, a, b),
                                  [c \in {"AudioOutputUnitStop", "AudioUnitUninitialize"}
                                     |-> IF c = "AudioOutputUnitStop" THEN a ELSE b])
                  /\ WellReported(unit_set_property(Unit, a),
                                  [c \in {"AudioUnitSetProperty"} |-> a])
            /\ Distinct(last.calls)
            /\ ~last.ok => \/ last.calls # <<>>
                            \/ last.op \in {"new", "set_render_callback_panic"})
    /\ [][(kind = "output" /\ last'.op = "enqueue") =>
            /\ last'.ok <=> hostOwned' # hostOwned
            /\ \A b \in DOMAIN hostOwned :
                  hostOwned'[b] = hostOwned[b] +
                     (IF last'.ok /\ b = buffers[last'.idx + 1].mUserData
                      THEN 1 ELSE 0)]_vars

\* C27 witness: a start() on a Created unit has returned an error after the
\* host start, its second host call, was refused.
C27_Witness ==
    /\ kind = "unit" /\ last.op = "start" /\ ~last.ok
    /\ last.calls = <<"AudioUnitInitialize", "AudioOutputUnitStart">>

----------------------------------------------------------------------------
(* uninitialize and start, step by step *)

\* C28: an uninitialize() (called by the application or by Drop) on a unit
\* that is not initialized returns Ok, makes no host call and changes
\* nothing; on a started unit that it brings down it has called the host stop
\* and then the host uninitialize and leaves both flags FALSE; and when the
\* stop fails it returns the error, the host stop being its only host call,
\* with both flags as they were.
C28_Uninitialize ==
    [][(kind = "unit" /\ last'.op \in {"uninitialize", "drop_uninit"}) =>
          /\ ~initialized =>
                /\ last'.ok /\ last'.calls = <<>>
                /\ UNCHANGED <<initialized, started, running>>
          /\ (started /\ last'.ok) =>
                /\ last'.calls = <<"AudioOutputUnitStop", "AudioUnitUninitialize">>
                /\ ~initialized' /\ ~started'
          /\ started =>
                /\ last'.calls # <<>> /\ Head(last'.calls) = "AudioOutputUnitStop"
                /\ started' =>
                      /\ ~last'.ok
                      /\ last'.calls = <<"AudioOutputUnitStop">>
                      /\ UNCHANGED <<initialized, started>>
          /\ \A b \in BOOLEAN :
                LET r == unit_uninitialize(Unit, FALSE, b)
                IN  started => /\ ~r.ret
                               /\ r.calls = <<"AudioOutputUnitStop">>
                               /\ r.initialized = initialized
                               /\ r.started = started]_vars

\* C28 witness: an uninitialize() of a started unit has stopped and
\* uninitialized it.
C28_Witness ==
    /\ kind = "unit" /\ last.op = "uninitialize" /\ last.ok
    /\ last.calls = <<"AudioOutputUnitStop", "AudioUnitUninitialize">>
    /\ ~initialized /\ ~started /\ ~running

\* C29: a start() on a unit that is not initialized calls the host initialize
\* first and, only if that succeeded, the host start, each once; when both
\* succeed the unit is Started; when the initialize fails the host start is
\* not called.
C29_StartInitializesFirst ==
    [][(kind = "unit" /\ last'.op = "start" /\ ~initialized) =>
          /\ last'.calls \in {<<"AudioUnitInitialize">>,
                              <<"AudioUnitInitialize", "AudioOutputUnitStart">>}
          /\ last'.ok =>
                /\ last'.calls = <<"AudioUnitInitialize", "AudioOutputUnitStart">>
                /\ initialized' /\ started'
          /\ ~initialized' => last'.calls = <<"AudioUnitInitialize">> /\ ~last'.ok
          /\ \A b \in BOOLEAN :
                LET r == unit_start(Unit, FALSE, b)
                IN  /\ r.calls = <<"AudioUnitInitialize">>
                    /\ ~r.ret /\ ~r.started /\ ~r.initialized]_vars

\* C29 witness: a start() on a Created unit has initialized and started it.
C29_Witness ==
    /\ kind = "unit" /\ last.op = "start" /\ last.ok
    /\ last.calls = <<"AudioUnitInitialize", "AudioOutputUnitStart">>
    /\ initialized /\ started /\ running

----------------------------------------------------------------------------
(* The completion callback and the host thread *)

\* C30: whenever the host, running the queue, holds a submitted buffer, the
\* delivery of its completion is enabled, wherever the application thread is
\* (blocked in recv(), holding a handle, idle, tearing the pool down before
\* the dispose) and however many indices the ready-queue holds; and the
\* delivery is one step, which appends one index to the ready-queue, takes
\* the buffer from the host and moves neither the application thread nor its
\* handle.
C30_CompletionNeverBlocks ==
    /\ [](\A b \in DOMAIN hostOwned :
            (kind = "output" /\ queue_ref = "live" /\ running /\ hostOwned[b] > 0)
               => ENABLED output_proc(b))
    /\ [][(kind = "output" /\ last'.op = "output_proc") =>
            /\ Len(next_buffer') = Len(next_buffer) + 1
            /\ SumHost(0)' = SumHost(0) - 1
            /\ UNCHANGED <<pc, handle, running, buffers>>]_vars

\* C30 witness: a completion has just been delivered while the application
\* thread was in recv() and an index already sat in the ready-queue.
C30_Witness ==
    /\ kind = "output" /\ last.op = "output_proc" /\ pc = "recv"
    /\ Len(next_buffer) > 1

----------------------------------------------------------------------------
(* request_buffer returns a handle or blocks *)

\* The application holds the pool object.
PoolExists == kind = "output" /\ pc \in ({"idle", "recv"} \cup HandlePcs)

----------------------------------------------------------------------------
(* The header allocation of an owned AudioBufferList *)

\* mNumberBuffers is a u32 at the start of the header.
CountSize == 4

\* &mut (*list).mBuffers: the one built-in descriptor slot ends the header.
mBuffers_offset == ListByteSize - BufferByteSize

\* from_raw_parts(ptr, n)[i]: the bytes of the i-th descriptor, [from, to).
Descriptor(i) ==
    [from |-> mBuffers_offset + i * BufferByteSize,
     to   |-> mBuffers_offset + (i + 1) * BufferByteSize]

\* C32: the header of an owned list reports exactly the buffer count it was
\* built with, and its allocation (the fixed header plus one descriptor size
\* per further buffer) holds the count field followed by every descriptor:
\* each descriptor new() writes and buffers()/buffers_mut() reads lies
\* inside the allocation, after the count.
C32_HeaderHoldsEveryDescriptor ==
    (kind = "list" /\ list.state = "owned") =>
        /\ list.mNumberBuffers = list.args[1]
        /\ buffers_len(list) = list.args[1]
        /\ Len(list.mBuffers) = buffers_len(list)
        /\ list.audio_buffer_list =
               ListByteSize + (list.args[1] - 1) * BufferByteSize
        /\ CountSize <= mBuffers_offset
        /\ \A i \in 0..(buffers_len(list) - 1) :
               /\ CountSize <= Descriptor(i).from
               /\ Descriptor(i).to <= list.audio_buffer_list
        /\ (last.op \in {"channels", "frames", "samples", "swap",
                        "swap_other"} /\ last.ok) =>
               Descriptor(last.idx).to <= list.audio_buffer_list

\* The last descriptor of a list of more than one buffer has been read.
C32_Witness ==
    /\ kind = "list" /\ list.state = "owned" /\ list.args[1] > 1
    /\ last.op = "samples" /\ last.idx = list.args[1] - 1

----------------------------------------------------------------------------
(* The values in the ready-queue *)

\* C33: every value that enters the ready-queue is less than the pool's
\* buffer count and is the position, in the pool's array, of the buffer whose
\* user-data slot holds it; so the buffers[index] of a handle is in bounds.
C33_ReadyValuesArePositions ==
    kind = "output" =>
        /\ \A n \in DOMAIN next_buffer :
               /\ next_buffer[n] < buffer_count
               /\ (next_buffer[n] + 1 \in DOMAIN buffers =>
                       buffers[next_buffer[n] + 1].mUserData = next_buffer[n])
        /\ last.op = "output_proc" => last.idx < buffer_count
        /\ handle # <<>> => handle[1].index + 1 \in DOMAIN buffers

----------------------------------------------------------------------------
(* A constructor that fails while allocating buffers *)

\* The buffers AudioQueueOutput::new had allocated.
Allocated == Cardinality(DOMAIN hostOwned)

\* The host queue was created and an AudioQueueAllocateBuffer call failed.
PartialPool == kind = "output" /\ queue_ref # "none" /\ Allocated < buffer_count

\* C34: when the allocation of a buffer fails in AudioQueueOutput::new after
\* the host queue was created, the constructor returns the error and the
\* partly built pool is torn down by Drop: each buffer already allocated is
\* freed exactly once, the host queue is disposed exactly once and the
\* callback box is reclaimed exactly once.
ThisFrees == SelectSeq(freeCalls, LAMBDA c : c[1] = "this")

C34_PartialPoolTornDown ==
    PartialPool =>
        /\ pc \in {"drop_stop", "drop_clear", "drop_dispose", "drop_reclaim",
                   "dropped"}
        /\ last.op = "new" => ~last.ok /\ last.idx = Allocated
        /\ handle = <<>>
        /\ pc \in {"drop_stop", "drop_clear"} =>
               ThisFrees = <<>> /\ Len(buffers) = Allocated
        /\ pc \in {"drop_dispose", "drop_reclaim", "dropped"} =>
               /\ Len(ThisFrees) = Allocated
               /\ \A i \in 0..(Allocated - 1) :
                      Count(<<"this", i>>, freeCalls) = 1
               /\ buffers = <<>>
        /\ pc \in {"drop_stop", "drop_clear", "drop_dispose"} =>
               queue_ref = "live"
        /\ pc \in {"drop_reclaim", "dropped"} => queue_ref = "disposed"
        /\ pc # "dropped" => wrapper = "live" /\ wrapperFrees = 0
        /\ pc = "dropped" => wrapper = "freed" /\ wrapperFrees = 1

\* The teardown of a pool whose second allocation failed is over.
C34_Witness ==
    PartialPool /\ pc = "dropped" /\ Allocated >= 1

----------------------------------------------------------------------------
(* The host calls of an AudioUnit against the host's own state *)

\* C35: the host calls an AudioUnit issues over its life are well-formed
\* with respect to the host's own state, which changes exactly when a call
\* succeeds: every AudioOutputUnitStart is issued on an initialized host
\* object, every AudioUnitUninitialize on one that is not running, no call
\* is issued after AudioComponentInstanceDispose, and while the host object
\* exists the wrapper's initialized and started flags equal the host's
\* initialized and running state.
C35_HostCallsWellFormed ==
    kind = "unit" =>
        /\ host.wellFormed
        /\ queue_ref # "disposed" =>
               /\ initialized = host.initialized
               /\ started = running
        /\ queue_ref = "disposed" =>
               /\ last.calls = <<>> \/ last.op = "drop_dispose"
               /\ dropCalls[Len(dropCalls)] = "AudioComponentInstanceDispose"
        /\ \A n \in 1..(Len(dropCalls) - 1) :
               dropCalls[n] # "AudioComponentInstanceDispose"

\* Drop for AudioUnit on a started unit: its stop() failed, and its
\* uninitialize() stopped the host and then uninitialized it.
C35_Witness ==
    /\ kind = "unit" /\ last.op = "drop_uninit" /\ last.ok
    /\ last.calls = <<"AudioOutputUnitStop", "AudioUnitUninitialize">>
    /\ dropCalls = <<"AudioOutputUnitStop", "AudioOutputUnitStop",
                     "AudioUnitUninitialize">>
    /\ ~host.initialized /\ ~running

----------------------------------------------------------------------------
(* The frame count of AudioUnit::render *)

\* C36: AudioUnit::render never asks the host for more frames than the
\* output list can hold: the frame count passed to AudioUnitRender is at
\* most the frames per buffer the owned list was built with.
C36_RenderWithinCapacity ==
    (kind = "list" /\ list.state = "owned" /\ last.op = "render") =>
        /\ value <= list.args[3]
        /\ \A i \in 1..buffers_len(list) :
               value * channels_of(list.mBuffers[i]) <=
                   samples_len(list.mBuffers[i])

====
